---------------------------- MODULE Spec2Model ----------------------------
(***************************************************************************)
(* Model of custom_components/mosoblgaz/config_flow.py: the setup wizard   *)
(* MosoblgazFlowHandler (steps user, contract, import) as it is driven by  *)
(* the host flow engine, several wizard instances sharing the host's       *)
(* config-entry store.                                                     *)
(*                                                                         *)
(* Python values are modelled by TLA+ values of one shape per kind:        *)
(*   - a dict with fixed keys is a record, DOMAIN being its key set;       *)
(*   - the ordered mapping returned by fetch_contracts is [keys |-> s],    *)
(*     s the sequence of its keys in insertion order (the values, shallow  *)
(*     stubs, are never read by the wizard);                               *)
(*   - the contracts decisions dict is a function from ids to decisions;   *)
(*   - None is the record None where a dict may stand, and the string      *)
(*     NoneId where a contract id may stand;                               *)
(*   - "User: " + username is the pair <<"User: ", username>>;              *)
(*   - a raised exception that leaves a step is the result                 *)
(*     [type |-> "raise", exception |-> name].                             *)
(***************************************************************************)
EXTENDS Integers, Sequences, FiniteSets, TLC

\* ------------------------------------------------------------------ bounds
MaxContracts == 2      \* most contract ids one fetch_contracts answer holds
NumFlows == 2          \* wizard instances alive at once

IdPool == <<"C1", "C2", "C3", "C4">>
ContractIds == {IdPool[i] : i \in 1..MaxContracts}
Flows == 1..NumFlows
Usernames == {"alice", "Alice"}
Passwords == {"x"}
FilterChoices == {"None", "all"}

\* ------------------------------------------------------------ Python values
None == [none |-> TRUE]
NoneId == "None"
PyFalse == [false |-> TRUE]
CONF_USERNAME == "username"
CONF_PASSWORD == "password"
CONF_CONTRACTS == "contracts"
CONF_METERS == "meters"
CONF_INVOICES == "invoices"
CONF_ENABLE_CONTRACT == "enable_contract"
CONF_ADD_ALL_CONTRACTS == "add_all_contracts"

\* dict.get(key) read as a condition: absent, None and False are all falsy
GetFlag(d, key) == key \in DOMAIN d /\ d[key] = TRUE
\* bool(x) of a recorded contract decision: False, or a dict of two keys
Truthy(x) == x # PyFalse
\* an ordered mapping with the given key sequence
Mapping(ks) == [keys |-> ks]
\* the sequences of distinct ids of length at most MaxContracts
RECURSIVE SeqsNoDup(_)
SeqsNoDup(n) ==
    IF n = 0 THEN {<<>>}
    ELSE LET shorter == SeqsNoDup(n - 1)
         IN shorter \cup {Append(s, c) : s \in {t \in shorter : Len(t) = n - 1},
                                         c \in ContractIds}
KeySeqs == {s \in SeqsNoDup(MaxContracts) :
              \A i, j \in 1..Len(s) : i # j => s[i] # s[j]}

\* what the setup form submits: username, password, the add_all_contracts box
UserInputs ==
    [username : Usernames, password : Passwords, add_all_contracts : BOOLEAN]
\* what the contract form submits: optional enable toggle, the two filters
ContractInputs ==
    [meters : FilterChoices, invoices : FilterChoices]
      \cup [enable_contract : BOOLEAN, meters : FilterChoices, invoices : FilterChoices]
\* what the import step receives: the declared configuration of an account
ImportInputs == [username : Usernames, password : Passwords]

\* collaborator outcomes
AuthenticationFailedException == "AuthenticationFailedException"
PartialOfflineException == "PartialOfflineException"
MosoblgazException == "MosoblgazException"
OtherException == "Exception"
ApiExceptions == {AuthenticationFailedException, PartialOfflineException,
                  MosoblgazException, OtherException}

\* ------------------------------------------------------------ flow results
NoResult == [type |-> "none"]
async_show_form(step_id, errors, placeholders) ==
    [type |-> "form", step_id |-> step_id, errors |-> errors,
     placeholders |-> placeholders]
async_abort(reason) == [type |-> "abort", reason |-> reason]
async_create_entry(title, data) ==
    [type |-> "create_entry", title |-> title, data |-> data]
Raise(exception) == [type |-> "raise", exception |-> exception]
NoErrors == [base |-> "None"]
NoPlaceholders == [code |-> NoneId]

VARIABLES
    entries,     \* the host's config entries, a sequence of [source, data]
    handler,     \* handler[f]: the instance attributes of wizard f
    pc,          \* pc[f]: where wizard f stands
    arg,         \* arg[f]: user_input of the user step suspended at an await
    result,      \* result[f]: what the last step of f returned
    calls,       \* calls[f]: collaborator calls made by the last step of f
    last,        \* last[f]: the last step invoked on f, its input, and which
                 \*          collaborator calls of it returned or raised
    fetched,     \* fetched[f]: the last answer of fetch_contracts, or None
    entered,     \* entered[f]: the contract step has run in f
    presented,   \* presented[f]: ids the contract forms of f have shown
    created      \* created[f]: entries the host has stored for f

vars == <<entries, handler, pc, arg, result, calls, last, fetched, entered,
          presented, created>>


\* ------------------------------------------------- MosoblgazFlowHandler
\* __init__: the attributes a new wizard instance has
FlowHandlerInit ==
    [_contracts |-> None,
     _last_contract_id |-> NoneId,
     _current_config |-> None,
     schema_user |-> "AUTHENTICATION_SUBCONFIG"]

\* the loop returning after the first entry, whatever its username
check_entry_exists_first_only(current_entries, username) ==
    /\ Len(current_entries) > 0
    /\ current_entries[1].data[CONF_USERNAME] = username

\* _check_entry_exists: some current entry's data has exactly this username
check_entry_exists(current_entries, username) ==
    \E i \in 1..Len(current_entries) :
        /\ CONF_USERNAME \in DOMAIN current_entries[i].data
        /\ current_entries[i].data[CONF_USERNAME] = username

\* the clauses with invalid credentials ending the flow
ExceptClauses_abort_credentials(exception) ==
    IF exception = AuthenticationFailedException
    THEN async_abort("invalid_credentials")
    ELSE IF exception = PartialOfflineException
    THEN async_abort("partial_offline")
    ELSE IF exception = MosoblgazException
    THEN async_abort("api_error")
    ELSE Raise(exception)

\* the clauses with the generic one ahead of the partial-outage one
ExceptClauses_generic_first(exception) ==
    IF exception = AuthenticationFailedException
    THEN async_show_form("user", [base |-> "invalid_credentials"], NoPlaceholders)
    ELSE IF exception \in {MosoblgazException, PartialOfflineException}
    THEN async_abort("api_error")
    ELSE Raise(exception)

\* the except clauses of async_step_user, tried in order
ExceptClauses(exception) ==
    IF exception = AuthenticationFailedException
    THEN async_show_form("user", [base |-> "invalid_credentials"], NoPlaceholders)
    ELSE IF exception = PartialOfflineException
    THEN async_abort("partial_offline")
    ELSE IF exception = MosoblgazException
    THEN async_abort("api_error")
    ELSE Raise(exception)

\* the contract form of async_step_contract, reading self.schema_contract
ShowContractForm(h, contract_id) ==
    IF "schema_contract" \notin DOMAIN h
    THEN Raise("AttributeError")
    ELSE async_show_form("contract", NoErrors, [code |-> contract_id])

\* the decision with an absent toggle read as checked
ContractConfig_absent_enables(user_input) ==
    IF CONF_ENABLE_CONTRACT \notin DOMAIN user_input
          \/ GetFlag(user_input, CONF_ENABLE_CONTRACT)
    THEN [meters |-> user_input[CONF_METERS], invoices |-> user_input[CONF_INVOICES]]
    ELSE PyFalse

\* the decision a contract submission records
ContractConfig(user_input) ==
    IF GetFlag(user_input, CONF_ENABLE_CONTRACT)
    THEN [meters |-> user_input[CONF_METERS], invoices |-> user_input[CONF_INVOICES]]
    ELSE PyFalse

\* all(filter(lambda x: not x, values)): filter keeps the falsy decisions and
\* all() asks each kept one to be truthy
AllFilterNot(decisions) ==
    LET kept == {c \in DOMAIN decisions : ~Truthy(decisions[c])}
    IN \A c \in kept : Truthy(decisions[c])

\* the step choosing the first pending id without deleting it
async_step_contract_no_del(h, user_input) ==
    LET first == h._last_contract_id = NoneId
    IN IF first /\ h._contracts = None
       THEN [handler |-> h, result |-> Raise("AttributeError")]
       ELSE IF first /\ h._contracts.keys = <<>>
       THEN [handler |-> h, result |-> Raise("IndexError")]
       ELSE
         LET contract_id == IF first THEN Head(h._contracts.keys)
                                     ELSE h._last_contract_id
             h1 == [h EXCEPT !._last_contract_id = contract_id]
         IN IF user_input = None
            THEN [handler |-> h1, result |-> ShowContractForm(h1, contract_id)]
            ELSE
              LET h2 == [h1 EXCEPT !._current_config.contracts =
                            (contract_id :> ContractConfig(user_input)) @@ @]
              IN IF h2._contracts.keys # <<>>
                 THEN [handler |-> h2, result |-> ShowContractForm(h2, contract_id)]
                 ELSE IF AllFilterNot(h2._current_config.contracts)
                 THEN [handler |-> h2, result |-> async_abort("nothing_enabled")]
                 ELSE [handler |-> h2, result |-> Raise("NameError")]

\* async_step_contract(user_input): the handler afterwards and the result
RECURSIVE async_step_contract(_, _)
async_step_contract(h, user_input) ==
    LET first == h._last_contract_id = NoneId
    IN IF first /\ h._contracts = None
       THEN [handler |-> h, result |-> Raise("AttributeError")]
       ELSE IF first /\ h._contracts.keys = <<>>
       THEN [handler |-> h, result |-> Raise("IndexError")]
       ELSE
         LET contract_id == IF first THEN Head(h._contracts.keys)
                                     ELSE h._last_contract_id
             h1 == IF first
                   THEN [h EXCEPT !._contracts = Mapping(Tail(h._contracts.keys)),
                                  !._last_contract_id = contract_id]
                   ELSE h
         IN IF user_input = None
            THEN [handler |-> h1, result |-> ShowContractForm(h1, contract_id)]
            ELSE
              LET h2 == [h1 EXCEPT !._current_config.contracts =
                            (contract_id :> ContractConfig(user_input)) @@ @]
              IN IF h2._contracts.keys # <<>>
                 THEN async_step_contract(h2, None)
                 ELSE IF AllFilterNot(h2._current_config.contracts)
                 THEN [handler |-> h2, result |-> async_abort("nothing_enabled")]
                 ELSE [handler |-> h2, result |-> Raise("NameError")]

\* async_step_user initialising the pending registration state
PendingRegistration(h, user_input, contracts) ==
    [h EXCEPT !._current_config = [contracts |-> <<>>] @@ user_input,
              !._contracts = contracts]

\* the step initialising the pending state before it reads the flag
UserStepWithContracts_hoisted(h, user_input, contracts) ==
    IF contracts.keys = <<>>
    THEN [handler |-> h, result |-> async_abort("contracts_missing"), nested |-> FALSE]
    ELSE LET h1 == PendingRegistration(h, user_input, contracts)
         IN IF ~GetFlag(user_input, CONF_ADD_ALL_CONTRACTS)
            THEN LET r == async_step_contract(h1, None)
                 IN [handler |-> r.handler, result |-> r.result, nested |-> TRUE]
            ELSE [handler |-> h1,
                  result |-> async_create_entry(<<"User: ", user_input[CONF_USERNAME]>>,
                                                user_input),
                  nested |-> FALSE]

\* the step reading the flag before it looks at the contracts
UserStepWithContracts_flag_first(h, user_input, contracts) ==
    IF GetFlag(user_input, CONF_ADD_ALL_CONTRACTS)
    THEN [handler |-> h,
          result |-> async_create_entry(<<"User: ", user_input[CONF_USERNAME]>>, user_input),
          nested |-> FALSE]
    ELSE IF contracts.keys = <<>>
    THEN [handler |-> h, result |-> async_abort("contracts_missing"), nested |-> FALSE]
    ELSE LET h1 == PendingRegistration(h, user_input, contracts)
             r == async_step_contract(h1, None)
         IN [handler |-> r.handler, result |-> r.result, nested |-> TRUE]

\* async_step_user from the answer of fetch_contracts on: the handler
\* afterwards, the result, and whether the contract step was called
UserStepWithContracts(h, user_input, contracts) ==
    IF contracts.keys = <<>>
    THEN [handler |-> h, result |-> async_abort("contracts_missing"), nested |-> FALSE]
    ELSE IF ~GetFlag(user_input, CONF_ADD_ALL_CONTRACTS)
    THEN LET h1 == PendingRegistration(h, user_input, contracts)
             r == async_step_contract(h1, None)
         IN [handler |-> r.handler, result |-> r.result, nested |-> TRUE]
    ELSE [handler |-> h,
          result |-> async_create_entry(<<"User: ", user_input[CONF_USERNAME]>>, user_input),
          nested |-> FALSE]

\* the import step keeping everything it was given
ImportStep_whole_input(current_entries, user_input) ==
    IF user_input = None
    THEN async_abort("unknown_error")
    ELSE IF check_entry_exists(current_entries, user_input[CONF_USERNAME])
    THEN async_abort("already_exists")
    ELSE async_create_entry(<<"User: ", user_input[CONF_USERNAME]>>, user_input)

\* async_step_import(user_input)
ImportStep(current_entries, user_input) ==
    IF user_input = None
    THEN async_abort("unknown_error")
    ELSE IF check_entry_exists(current_entries, user_input[CONF_USERNAME])
    THEN async_abort("already_exists")
    ELSE async_create_entry(<<"User: ", user_input[CONF_USERNAME]>>,
                            [username |-> user_input[CONF_USERNAME]])


\* ------------------------------------------------------------ the host
\* a config entry of the host's store
ConfigEntry(source, data) == [source |-> source, data |-> data]
InitialEntry(u) == ConfigEntry("user", [username |-> u, password |-> "x"])
\* the stores a wizard may find: no username twice
InitialStores ==
    {<<>>, <<InitialEntry("alice"), InitialEntry("Alice")>>}

\* the host keeps the entry of a create-entry result
StoreAfter(current_entries, source, r) ==
    IF r.type = "create_entry"
    THEN Append(current_entries, ConfigEntry(source, r.data))
    ELSE current_entries
\* the entries stored for a wizard, the one of this result included
CreatedAfter(n, r) == IF r.type = "create_entry" THEN n + 1 ELSE n
\* a form leaves the wizard waiting for the user; anything else ends the run
PcAfter(r) == IF r.type = "form" THEN "idle" ELSE "done"
\* the ids shown so far, the form of this result included
PresentedAfter(shown, r) ==
    IF r.type = "form" /\ r.step_id = "contract"
    THEN Append(shown, r.placeholders.code)
    ELSE shown
\* is u the username of a stored entry (read off the store, not by the wizard)
Registered(u) == u \in {entries[i].data.username : i \in 1..Len(entries)}
\* the record kept of a step invocation
Invocation(step, user_input, registered, before) ==
    [step |-> step, input |-> user_input, registered |-> registered,
     failure |-> "None", returned |-> <<>>, before |-> before]
\* the host may call the user step: at the start, or while its form is shown
AtUserStep(f) ==
    \/ pc[f] = "start"
    \/ pc[f] = "idle" /\ result[f].step_id = "user"

Init ==
    /\ entries \in InitialStores
    /\ handler = [f \in Flows |-> FlowHandlerInit]
    /\ pc = [f \in Flows |-> "start"]
    /\ arg = [f \in Flows |-> None]
    /\ result = [f \in Flows |-> NoResult]
    /\ calls = [f \in Flows |-> <<>>]
    /\ last = [f \in Flows |-> Invocation("none", None, FALSE, FlowHandlerInit)]
    /\ fetched = [f \in Flows |-> None]
    /\ entered = [f \in Flows |-> FALSE]
    /\ presented = [f \in Flows |-> <<>>]
    /\ created = [f \in Flows |-> 0]

\* async_step_user(None): show the credentials form
UserForm(f) ==
    /\ AtUserStep(f)
    /\ result' = [result EXCEPT ![f] = async_show_form("user", NoErrors, NoPlaceholders)]
    /\ pc' = [pc EXCEPT ![f] = "idle"]
    /\ calls' = [calls EXCEPT ![f] = <<>>]
    /\ last' = [last EXCEPT ![f] = Invocation("user", None, FALSE, handler[f])]
    /\ UNCHANGED <<entries, handler, arg, fetched, entered, presented, created>>

\* async_step_user(user_input) up to its first await on the collaborator
UserSubmit(f, user_input) ==
    /\ AtUserStep(f)
    /\ last' = [last EXCEPT ![f] =
                  Invocation("user", user_input, Registered(user_input[CONF_USERNAME]),
                             handler[f])]
    /\ IF check_entry_exists(entries, user_input[CONF_USERNAME])
       THEN /\ result' = [result EXCEPT ![f] = async_abort("already_exists")]
            /\ pc' = [pc EXCEPT ![f] = "done"]
            /\ calls' = [calls EXCEPT ![f] = <<>>]
            /\ arg' = arg
       ELSE /\ result' = [result EXCEPT ![f] = NoResult]
            /\ pc' = [pc EXCEPT ![f] = "authenticate"]
            /\ calls' = [calls EXCEPT ![f] = <<"authenticate">>]
            /\ arg' = [arg EXCEPT ![f] = user_input]
    /\ UNCHANGED <<entries, handler, fetched, entered, presented, created>>

\* the failure of api.authenticate() swallowed, the step going on to fetch
AuthenticateRaises_goes_on(f, exception) ==
    /\ pc[f] = "authenticate"
    /\ pc' = [pc EXCEPT ![f] = "fetch_contracts"]
    /\ calls' = [calls EXCEPT ![f] = Append(@, "fetch_contracts")]
    /\ last' = [last EXCEPT ![f].failure = exception]
    /\ UNCHANGED <<entries, handler, arg, result, fetched, entered, presented, created>>

\* api.authenticate() raises: the except clauses end the step
AuthenticateRaises(f, exception) ==
    /\ pc[f] = "authenticate"
    /\ result' = [result EXCEPT ![f] = ExceptClauses(exception)]
    /\ pc' = [pc EXCEPT ![f] = PcAfter(ExceptClauses(exception))]
    /\ last' = [last EXCEPT ![f].failure = exception]
    /\ arg' = [arg EXCEPT ![f] = None]
    /\ UNCHANGED <<entries, handler, calls, fetched, entered, presented, created>>

\* api.authenticate() returns: the step goes on to await fetch_contracts
AuthenticateReturns(f) ==
    /\ pc[f] = "authenticate"
    /\ pc' = [pc EXCEPT ![f] = "fetch_contracts"]
    /\ calls' = [calls EXCEPT ![f] = Append(@, "fetch_contracts")]
    /\ last' = [last EXCEPT ![f].returned = Append(@, "authenticate")]
    /\ UNCHANGED <<entries, handler, arg, result, fetched, entered, presented, created>>

\* api.fetch_contracts() raises: the except clauses end the step
FetchContractsRaises(f, exception) ==
    /\ pc[f] = "fetch_contracts"
    /\ result' = [result EXCEPT ![f] = ExceptClauses(exception)]
    /\ pc' = [pc EXCEPT ![f] = PcAfter(ExceptClauses(exception))]
    /\ last' = [last EXCEPT ![f].failure = exception]
    /\ arg' = [arg EXCEPT ![f] = None]
    /\ UNCHANGED <<entries, handler, calls, fetched, entered, presented, created>>

\* api.fetch_contracts() returns: the rest of async_step_user, to its return
FetchContractsReturns(f, contracts) ==
    /\ pc[f] = "fetch_contracts"
    /\ LET r == UserStepWithContracts(handler[f], arg[f], contracts)
       IN /\ handler' = [handler EXCEPT ![f] = r.handler]
          /\ result' = [result EXCEPT ![f] = r.result]
          /\ pc' = [pc EXCEPT ![f] = PcAfter(r.result)]
          /\ entered' = [entered EXCEPT ![f] = @ \/ r.nested]
          /\ presented' = [presented EXCEPT ![f] = PresentedAfter(@, r.result)]
          /\ entries' = StoreAfter(entries, "user", r.result)
          /\ created' = [created EXCEPT ![f] = CreatedAfter(@, r.result)]
    /\ fetched' = [fetched EXCEPT ![f] = contracts]
    /\ arg' = [arg EXCEPT ![f] = None]
    /\ last' = [last EXCEPT ![f].returned = Append(@, "fetch_contracts")]
    /\ UNCHANGED calls

\* async_step_import(user_input), the whole step
Import(f, user_input) ==
    /\ pc[f] = "start"
    /\ LET r == ImportStep(entries, user_input)
       IN /\ result' = [result EXCEPT ![f] = r]
          /\ pc' = [pc EXCEPT ![f] = PcAfter(r)]
          /\ entries' = StoreAfter(entries, "import", r)
          /\ created' = [created EXCEPT ![f] = CreatedAfter(@, r)]
    /\ calls' = [calls EXCEPT ![f] = <<>>]
    /\ last' = [last EXCEPT ![f] =
                  Invocation("import", user_input,
                             user_input # None /\ Registered(user_input.username),
                             handler[f])]
    /\ UNCHANGED <<handler, arg, fetched, entered, presented>>

\* The host calls the step whose form it last showed. No step returns a
\* contract form (ShowContractForm raises before it can), so a run driven by
\* the host never has the contract step to call with input; SpecContract
\* below drives that callback directly. An exception that leaves a step ends
\* the run (the host surfaces it as an unhandled-error abort).
Next ==
    \E f \in Flows :
        \/ UserForm(f)
        \/ \E user_input \in UserInputs : UserSubmit(f, user_input)
        \/ \E exception \in ApiExceptions : AuthenticateRaises(f, exception)
        \/ AuthenticateReturns(f)
        \/ \E exception \in ApiExceptions : FetchContractsRaises(f, exception)
        \/ \E ks \in KeySeqs : FetchContractsReturns(f, Mapping(ks))
        \/ \E user_input \in ImportInputs \cup {None} : Import(f, user_input)

Spec == Init /\ [][Next]_vars


\* ------------------------------------------- the contract step on its own
\* The contract callback invoked on a wizard whose user step has initialised
\* the pending registration state (async_step_user, just before it calls the
\* contract step). The caller keeps the handler when a call raises.
InitContract ==
    /\ entries = <<>>
    /\ \E user_input \in {i \in UserInputs : ~GetFlag(i, CONF_ADD_ALL_CONTRACTS)},
          ks \in KeySeqs \ {<<>>} :
          /\ handler = [f \in Flows |->
                          IF f = 1
                          THEN PendingRegistration(FlowHandlerInit, user_input, Mapping(ks))
                          ELSE FlowHandlerInit]
          /\ fetched = [f \in Flows |-> IF f = 1 THEN Mapping(ks) ELSE None]
          /\ last = [f \in Flows |->
                       IF f = 1
                       THEN [Invocation("user", user_input, FALSE, FlowHandlerInit)
                               EXCEPT !.returned = <<"authenticate", "fetch_contracts">>]
                       ELSE Invocation("none", None, FALSE, FlowHandlerInit)]
    /\ pc = [f \in Flows |-> IF f = 1 THEN "contract" ELSE "start"]
    /\ arg = [f \in Flows |-> None]
    /\ result = [f \in Flows |-> NoResult]
    /\ calls = [f \in Flows |->
                  IF f = 1 THEN <<"authenticate", "fetch_contracts">> ELSE <<>>]
    /\ entered = [f \in Flows |-> FALSE]
    /\ presented = [f \in Flows |-> <<>>]
    /\ created = [f \in Flows |-> 0]

\* async_step_contract(user_input), the whole step
ContractStep(f, user_input) ==
    /\ pc[f] = "contract"
    /\ LET r == async_step_contract(handler[f], user_input)
       IN /\ handler' = [handler EXCEPT ![f] = r.handler]
          /\ result' = [result EXCEPT ![f] = r.result]
          /\ pc' = [pc EXCEPT ![f] =
                      IF r.result.type \in {"abort", "create_entry"}
                      THEN "done" ELSE "contract"]
          /\ presented' = [presented EXCEPT ![f] = PresentedAfter(@, r.result)]
          /\ entries' = StoreAfter(entries, "user", r.result)
          /\ created' = [created EXCEPT ![f] = CreatedAfter(@, r.result)]
    /\ entered' = [entered EXCEPT ![f] = TRUE]
    /\ calls' = [calls EXCEPT ![f] = <<>>]
    /\ last' = [last EXCEPT ![f] = Invocation("contract", user_input, FALSE, handler[f])]
    /\ UNCHANGED <<arg, fetched>>

NextContract ==
    \E f \in Flows :
        \/ ContractStep(f, None)
        \/ \E user_input \in ContractInputs : ContractStep(f, user_input)

SpecContract == InitContract /\ [][NextContract]_vars


\* ------------------------------------------- MosoblgazOptionsFlowHandler
\* The options wizard bound to one config entry. Option values are written
\* as strings, the fixed defaults by their names.
CONF_INVERT_INVOICES == "invert_invoices"
CONF_TIMEOUT == "timeout"
CONF_SCAN_INTERVAL == "scan_interval"
SOURCE_IMPORT == "import"
DEFAULT_INVERT_INVOICES == "DEFAULT_INVERT_INVOICES"
DEFAULT_TIMEOUT == "DEFAULT_TIMEOUT.total_seconds()"
DEFAULT_SCAN_INTERVAL == "DEFAULT_SCAN_INTERVAL.total_seconds()"
OptionKeys == {CONF_INVERT_INVOICES, CONF_TIMEOUT, CONF_SCAN_INTERVAL}
OptionValues(key) ==
    IF key = CONF_INVERT_INVOICES THEN {"True", "False"}
    ELSE IF key = CONF_TIMEOUT THEN {"10", "45"}
    ELSE {"600", "7200"}
\* the dicts holding some of the option keys
OptionDicts ==
    UNION {{d \in [K -> UNION {OptionValues(k) : k \in OptionKeys}] :
               \A k \in K : d[k] \in OptionValues(k)} : K \in SUBSET OptionKeys}
\* the entries an options wizard may be bound to
OptionsEntries ==
    [source : {"user", SOURCE_IMPORT}, version : {1, 2},
     data : {d @@ [username |-> "alice"] : d \in OptionDicts},
     options : OptionDicts]
\* what the import form of the options wizard submits
OptionsImportInputs == [not_in_use : BOOLEAN]

\* MosoblgazOptionsFlowHandler.__init__
OptionsFlowHandlerInit(config_entry) == [config_entry |-> config_entry]
\* a form of the options wizard: its step and the defaults of its fields
OptionsForm(step_id, defaults) ==
    [type |-> "form", step_id |-> step_id, errors |-> NoErrors, defaults |-> defaults]
\* x or {}
OrEmptyDict(x) == IF DOMAIN x = {} THEN <<>> ELSE x
\* {**a, **b}: the keys of both, b's value where both have the key
DictMerge(a, b) == b @@ a
\* d.get(key, default)
DictGet(d, key, default) == IF key \in DOMAIN d THEN d[key] ELSE default

\* the merge with the entry's data on top of the options
ResolvedOptions_data_wins(config_entry) ==
    LET options == OrEmptyDict(config_entry.options)
    IN IF config_entry.version = 1
       THEN DictMerge(options, config_entry.data)
       ELSE options

\* the options the user step reads its defaults from
ResolvedOptions(config_entry) ==
    LET options == OrEmptyDict(config_entry.options)
    IN IF config_entry.version = 1
       THEN DictMerge(config_entry.data, options)
       ELSE options

\* the form of the user step, its three defaults read from the options
OptionsUserForm(config_entry) ==
    LET options == ResolvedOptions(config_entry)
    IN OptionsForm("user",
           [invert_invoices |->
                DictGet(options, CONF_INVERT_INVOICES, DEFAULT_INVERT_INVOICES),
            timeout |-> DictGet(options, CONF_TIMEOUT, DEFAULT_TIMEOUT),
            scan_interval |->
                DictGet(options, CONF_SCAN_INTERVAL, DEFAULT_SCAN_INTERVAL)])

\* the user step finalizing with the submission laid over the old options
OptionsStepUser_merged(h, user_input) ==
    IF user_input # None
    THEN [handler |-> h,
          result |-> async_create_entry("", DictMerge(h.config_entry.options, user_input))]
    ELSE [handler |-> h, result |-> OptionsUserForm(h.config_entry)]

\* MosoblgazOptionsFlowHandler.async_step_user(user_input)
OptionsStepUser(h, user_input) ==
    IF user_input # None
    THEN [handler |-> h, result |-> async_create_entry("", user_input)]
    ELSE [handler |-> h, result |-> OptionsUserForm(h.config_entry)]

\* MosoblgazOptionsFlowHandler.async_step_import(user_input)
OptionsStepImport(h, user_input) ==
    [handler |-> h, result |-> OptionsForm("import", [not_in_use |-> FALSE])]

\* MosoblgazOptionsFlowHandler.async_step_init(user_input)
OptionsStepInit(h, user_input) ==
    IF h.config_entry.source = SOURCE_IMPORT
    THEN OptionsStepImport(h, user_input)
    ELSE OptionsStepUser(h, user_input)

InitOptions ==
    /\ \E config_entry \in OptionsEntries :
          /\ entries = <<config_entry>>
          /\ handler = [f \in Flows |->
                          IF f = 1 THEN OptionsFlowHandlerInit(config_entry)
                          ELSE FlowHandlerInit]
    /\ pc = [f \in Flows |-> "start"]
    /\ arg = [f \in Flows |-> None]
    /\ result = [f \in Flows |-> NoResult]
    /\ calls = [f \in Flows |-> <<>>]
    /\ last = [f \in Flows |-> Invocation("none", None, FALSE, FlowHandlerInit)]
    /\ fetched = [f \in Flows |-> None]
    /\ entered = [f \in Flows |-> FALSE]
    /\ presented = [f \in Flows |-> <<>>]
    /\ created = [f \in Flows |-> 0]

\* what a step of the options wizard leaves behind
OptionsReturn(f, step, user_input, r) ==
    /\ handler' = [handler EXCEPT ![f] = r.handler]
    /\ result' = [result EXCEPT ![f] = r.result]
    /\ pc' = [pc EXCEPT ![f] = PcAfter(r.result)]
    /\ last' = [last EXCEPT ![f] = Invocation(step, user_input, FALSE, handler[f])]
    /\ UNCHANGED <<entries, arg, calls, fetched, entered, presented, created>>

\* the host opens the options wizard at its init step
OptionsInit(f, user_input) ==
    /\ f = 1
    /\ pc[f] = "start"
    /\ OptionsReturn(f, "options_init", user_input,
                     OptionsStepInit(handler[f], user_input))

\* the host calls the import step while its form is shown
OptionsImport(f, user_input) ==
    /\ pc[f] = "idle"
    /\ result[f].step_id = "import"
    /\ OptionsReturn(f, "options_import", user_input,
                     OptionsStepImport(handler[f], user_input))

\* the host calls the user step while its form is shown
OptionsUser(f, user_input) ==
    /\ pc[f] = "idle"
    /\ result[f].step_id = "user"
    /\ OptionsReturn(f, "options_user", user_input,
                     OptionsStepUser(handler[f], user_input))

NextOptions ==
    \E f \in Flows :
        \/ \E user_input \in {None} \cup OptionDicts \cup OptionsImportInputs :
              OptionsInit(f, user_input)
        \/ \E user_input \in {None} \cup OptionsImportInputs :
              OptionsImport(f, user_input)
        \/ \E user_input \in {None} \cup OptionDicts : OptionsUser(f, user_input)

SpecOptions == InitOptions /\ [][NextOptions]_vars

\* ------------------------------------------------------------ properties
\* the set of elements of a sequence
Range(s) == {s[i] : i \in 1..Len(s)}
\* the last step of f was a submission to the named step
Submitted(f, step) == last[f].step = step /\ last[f].input # None
\* the last user step of f got a non-empty answer from fetch_contracts
GotContracts(f) == fetched[f] # None /\ fetched[f].keys # <<>>
\* the pending ids a contract submission finds once its current id is chosen
RemainingAtSubmit(h) ==
    IF h._last_contract_id = NoneId THEN Tail(h._contracts.keys) ELSE h._contracts.keys

\* C1: a run that got N >= 1 contract ids with add_all_contracts unset has,
\* once it has ended, ended created or aborted after presenting the contract
\* form exactly N times, once per id, with one decision recorded for each id.
C1_EveryContractPresentedOnce ==
    \A f \in Flows :
        (pc[f] = "done" /\ GotContracts(f)
            /\ ~GetFlag(last[f].input, CONF_ADD_ALL_CONTRACTS))
        => /\ result[f].type \in {"create_entry", "abort"}
           /\ Len(presented[f]) = Len(fetched[f].keys)
           /\ Range(presented[f]) = Range(fetched[f].keys)
           /\ DOMAIN handler[f]._current_config.contracts = Range(fetched[f].keys)

\* C2: after a contract submission that leaves no unresolved contract, the
\* step has returned abort nothing_enabled if every recorded decision is
\* false, and create-entry if some recorded decision is truthy.
C2_ExhaustedAbortsOrCreates ==
    \A f \in Flows :
        (Submitted(f, "contract") /\ RemainingAtSubmit(last[f].before) = <<>>)
        => LET decisions == handler[f]._current_config.contracts
           IN /\ (\A c \in DOMAIN decisions : decisions[c] = PyFalse)
                    => result[f] = async_abort("nothing_enabled")
              /\ (\E c \in DOMAIN decisions : Truthy(decisions[c]))
                    => result[f].type = "create_entry"

\* C3: a user or import submission whose username some stored entry has
\* exactly returns abort already_exists, with no collaborator call made.
C3_DuplicateAbortsWithoutClient ==
    \A f \in Flows :
        ((Submitted(f, "user") \/ Submitted(f, "import")) /\ last[f].registered)
        => /\ result[f] = async_abort("already_exists")
           /\ calls[f] = <<>>
           /\ pc[f] = "done"
C3_Witness ==
    \E f, g \in Flows :
        /\ Submitted(f, "user") /\ last[f].registered
        /\ Submitted(g, "import") /\ last[g].registered
        /\ Len(entries) = 2

\* C4: no two entries of the host's store have the same username.
C4_UsernamesUnique ==
    \A i, j \in 1..Len(entries) :
        i # j => entries[i].data.username # entries[j].data.username

\* C5: when the last unresolved contract is decided and some contract is
\* enabled, the contract step returns create-entry titled "User: " + the
\* stored username, its data the accumulated payload.
C5_FinalEntryPayload ==
    \A f \in Flows :
        (Submitted(f, "contract") /\ RemainingAtSubmit(last[f].before) = <<>>
            /\ \E c \in DOMAIN handler[f]._current_config.contracts :
                   Truthy(handler[f]._current_config.contracts[c]))
        => result[f] = async_create_entry(
                           <<"User: ", handler[f]._current_config.username>>,
                           handler[f]._current_config)

\* C6: a user submission with add_all_contracts set, an unregistered
\* username, authentication passed and a non-empty contract mapping returns
\* create-entry titled "User: " + username with the submitted input as data;
\* the contract step is not entered and the pending state stays uninitialised.
C6_AddAllCreatesDirectly ==
    \A f \in Flows :
        (Submitted(f, "user") /\ GetFlag(last[f].input, CONF_ADD_ALL_CONTRACTS)
            /\ GotContracts(f))
        => /\ result[f] = async_create_entry(<<"User: ", last[f].input.username>>,
                                             last[f].input)
           /\ ~entered[f]
           /\ presented[f] = <<>>
           /\ handler[f]._current_config = None
           /\ handler[f]._contracts = None
           /\ handler[f]._last_contract_id = NoneId
C6_Witness ==
    \E f \in Flows :
        /\ Submitted(f, "user") /\ GetFlag(last[f].input, CONF_ADD_ALL_CONTRACTS)
        /\ GotContracts(f) /\ Len(fetched[f].keys) = 2
        /\ ~last[f].registered
        /\ calls[f] = <<"authenticate", "fetch_contracts">>
        /\ created[f] = 1

\* C7: a user submission whose fetch_contracts answer is empty returns abort
\* contracts_missing, with the flag set or not; the contract step is not
\* entered and the run creates no entry.
C7_NoContractsAborts ==
    \A f \in Flows :
        (fetched[f] # None /\ fetched[f].keys = <<>>)
        => /\ result[f] = async_abort("contracts_missing")
           /\ pc[f] = "done"
           /\ ~entered[f]
           /\ presented[f] = <<>>
           /\ created[f] = 0
C7_Witness ==
    \E f, g \in Flows :
        /\ fetched[f] = Mapping(<<>>) /\ GetFlag(last[f].input, CONF_ADD_ALL_CONTRACTS)
        /\ fetched[g] = Mapping(<<>>) /\ ~GetFlag(last[g].input, CONF_ADD_ALL_CONTRACTS)
        /\ result[f].type = "abort" /\ result[g].type = "abort"

\* C8: when the collaborator reports invalid credentials the user step shows
\* the user form again with base = invalid_credentials; the wizard waits at
\* the user step with its pending state uninitialised and no entry created,
\* open to any resubmission just as before the first one.
C8_InvalidCredentialsReshowsForm ==
    \A f \in Flows :
        last[f].failure = AuthenticationFailedException
        => /\ result[f] = async_show_form("user", [base |-> "invalid_credentials"],
                                          NoPlaceholders)
           /\ pc[f] = "idle"
           /\ AtUserStep(f)
           /\ handler[f] = FlowHandlerInit
           /\ arg[f] = None
           /\ created[f] = 0
           /\ ~entered[f]
C8_Witness ==
    \E f, g \in Flows :
        /\ last[f].failure = AuthenticationFailedException
        /\ calls[f] = <<"authenticate">>
        /\ result[f].type = "form"
        /\ last[g].failure = AuthenticationFailedException
        /\ calls[g] = <<"authenticate", "fetch_contracts">>

\* C9: when a collaborator call of the user step fails with the
\* partial-outage kind the step returns abort partial_offline, and when it
\* fails with another domain failure it returns abort api_error; no entry is
\* created and the contract step is not entered.
C9_OutageAndApiErrorsAbort ==
    \A f \in Flows :
        /\ last[f].failure = PartialOfflineException
              => result[f] = async_abort("partial_offline")
        /\ last[f].failure = MosoblgazException
              => result[f] = async_abort("api_error")
        /\ last[f].failure \in {PartialOfflineException, MosoblgazException}
              => pc[f] = "done" /\ created[f] = 0 /\ ~entered[f]
C9_Witness ==
    \E f, g \in Flows :
        /\ last[f].failure = PartialOfflineException
        /\ calls[f] = <<"authenticate">>
        /\ result[f].type = "abort"
        /\ last[g].failure = MosoblgazException
        /\ calls[g] = <<"authenticate", "fetch_contracts">>
        /\ result[g].type = "abort"

\* C10: a contract submission made while unresolved contracts remain pops the
\* next pending id and shows the contract form for it: the form's placeholder
\* and the current id are the head of the pending ids, which leaves the
\* pending ids, so forms follow the insertion order and never repeat an id.
C10_NextContractPresented ==
    \A f \in Flows :
        (Submitted(f, "contract") /\ RemainingAtSubmit(last[f].before) # <<>>)
        => LET remaining == RemainingAtSubmit(last[f].before)
           IN /\ result[f] = async_show_form("contract", NoErrors,
                                             [code |-> Head(remaining)])
              /\ handler[f]._last_contract_id = Head(remaining)
              /\ handler[f]._contracts.keys = Tail(remaining)

\* C11: the import step with no input returns abort unknown_error; with an
\* unregistered username it returns create-entry titled "User: " + username
\* whose data holds the username alone; it makes no collaborator call and
\* leaves the pending registration state as __init__ set it.
C11_ImportCreatesMinimalEntry ==
    \A f \in Flows :
        last[f].step = "import"
        => /\ last[f].input = None => result[f] = async_abort("unknown_error")
           /\ (last[f].input # None /\ ~last[f].registered)
                 => result[f] = async_create_entry(
                                    <<"User: ", last[f].input.username>>,
                                    [username |-> last[f].input.username])
           /\ calls[f] = <<>>
           /\ handler[f] = FlowHandlerInit
C11_Witness ==
    \E f, g \in Flows :
        /\ last[f].step = "import" /\ last[f].input = None
        /\ result[f].type = "abort"
        /\ last[g].step = "import" /\ last[g].input # None
        /\ CONF_PASSWORD \in DOMAIN last[g].input
        /\ ~last[g].registered
        /\ created[g] = 1

\* the fixed default of an option
FixedDefault(key) ==
    IF key = CONF_INVERT_INVOICES THEN DEFAULT_INVERT_INVOICES
    ELSE IF key = CONF_TIMEOUT THEN DEFAULT_TIMEOUT
    ELSE DEFAULT_SCAN_INTERVAL
\* the last step of f was the options wizard's user step, called with no
\* input or with a submission as asked
OptionsUserCalled(f, submitted) ==
    /\ \/ last[f].step = "options_user"
       \/ last[f].step = "options_init"
             /\ handler[f].config_entry.source # SOURCE_IMPORT
    /\ (last[f].input # None) = submitted
\* the last step of f was the options wizard's import step, likewise
OptionsImportCalled(f, submitted) ==
    /\ \/ last[f].step = "options_import"
       \/ last[f].step = "options_init"
             /\ handler[f].config_entry.source = SOURCE_IMPORT
    /\ (last[f].input # None) = submitted

\* C12: in the options wizard's user step on a version-1 entry with no
\* input, each default shown is the options value where the options hold
\* the field, else the data value where the data hold it, else the fixed
\* default.
C12_VersionOneDefaults ==
    \A f \in Flows :
        (OptionsUserCalled(f, FALSE) /\ handler[f].config_entry.version = 1)
        => LET e == handler[f].config_entry
           IN /\ result[f].type = "form" /\ result[f].step_id = "user"
              /\ \A k \in OptionKeys :
                    result[f].defaults[k] =
                        IF k \in DOMAIN e.options THEN e.options[k]
                        ELSE IF k \in DOMAIN e.data THEN e.data[k]
                        ELSE FixedDefault(k)
C12_Witness ==
    \E f \in Flows :
        /\ OptionsUserCalled(f, FALSE) /\ handler[f].config_entry.version = 1
        /\ LET e == handler[f].config_entry
           IN /\ CONF_TIMEOUT \in DOMAIN e.options /\ CONF_TIMEOUT \in DOMAIN e.data
              /\ e.options[CONF_TIMEOUT] # e.data[CONF_TIMEOUT]
              /\ CONF_INVERT_INVOICES \in DOMAIN e.data \ DOMAIN e.options
              /\ CONF_SCAN_INTERVAL \notin DOMAIN e.data \cup DOMAIN e.options
              /\ result[f].defaults[CONF_TIMEOUT] = e.options[CONF_TIMEOUT]

\* C13: for an entry that came from the import path the options wizard's
\* init step hands over to the import step, and a submission to that step
\* finalizes: the wizard ends created instead of showing the form again.
C13_ImportSubmissionFinalizes ==
    \A f \in Flows :
        /\ OptionsImportCalled(f, FALSE)
              => result[f].type = "form" /\ result[f].step_id = "import"
        /\ OptionsImportCalled(f, TRUE)
              => result[f].type = "create_entry" /\ pc[f] = "done"

\* C14: for an entry that did not come from the import path the options
\* wizard's init step hands over to the user step, and a submission returns
\* create-entry with an empty title and the submitted mapping as data,
\* whatever the entry holds; the step leaves the bound entry as it was.
C14_OptionsSubmissionVerbatim ==
    \A f \in Flows :
        /\ OptionsUserCalled(f, FALSE)
              => result[f].type = "form" /\ result[f].step_id = "user"
        /\ OptionsUserCalled(f, TRUE)
              => /\ result[f] = async_create_entry("", last[f].input)
                 /\ pc[f] = "done"
                 /\ handler[f].config_entry = entries[1]
                 /\ handler[f] = last[f].before
C14_Witness ==
    \E f \in Flows :
        /\ last[f].step = "options_user" /\ last[f].input # None
        /\ LET e == handler[f].config_entry
           IN /\ e.version = 1
              /\ CONF_TIMEOUT \in DOMAIN e.options
              /\ CONF_TIMEOUT \in DOMAIN last[f].input
              /\ last[f].input[CONF_TIMEOUT] # e.options[CONF_TIMEOUT]
              /\ DOMAIN last[f].input # DOMAIN e.options
        /\ result[f].type = "create_entry"

\* C15: a visit of the contract step with no input returns the contract
\* form with the current contract's id as its code placeholder; it does not
\* fail, and the recorded decisions stay as they were.
C15_ContractFormShown ==
    \A f \in Flows :
        (last[f].step = "contract" /\ last[f].input = None)
        => /\ result[f] = async_show_form("contract", NoErrors,
                                          [code |-> handler[f]._last_contract_id])
           /\ handler[f]._current_config = last[f].before._current_config

\* the contract id a call of the contract step works on
CurrentAtCall(h) ==
    IF h._last_contract_id = NoneId THEN Head(h._contracts.keys)
    ELSE h._last_contract_id

\* C16: a contract submission records a decision for the current contract id
\* only: false when the enable toggle is unchecked or absent, otherwise the
\* submitted meters and invoices; the decisions of the other ids and the
\* stored username and password stay as they were.
C16_SubmissionRecordsCurrentOnly ==
    \A f \in Flows :
        Submitted(f, "contract")
        => LET id == CurrentAtCall(last[f].before)
               old == last[f].before._current_config
               new == handler[f]._current_config
               in == last[f].input
           IN /\ DOMAIN new.contracts = DOMAIN old.contracts \cup {id}
              /\ new.contracts[id] =
                    IF CONF_ENABLE_CONTRACT \in DOMAIN in /\ in.enable_contract
                    THEN [meters |-> in.meters, invoices |-> in.invoices]
                    ELSE PyFalse
              /\ \A c \in DOMAIN old.contracts \ {id} :
                    new.contracts[c] = old.contracts[c]
              /\ new.username = old.username
              /\ new.password = old.password
              /\ DOMAIN new = DOMAIN old
C16_Witness ==
    \E f \in Flows :
        /\ Submitted(f, "contract")
        /\ LET id == CurrentAtCall(last[f].before)
           IN /\ id \in DOMAIN last[f].before._current_config.contracts
              /\ last[f].before._current_config.contracts[id] = PyFalse
              /\ handler[f]._current_config.contracts[id] =
                    [meters |-> "all", invoices |-> "None"]

\* C17: a run of the interactive wizard returns create-entry only after, in
\* that run, authenticate returned and fetch_contracts returned a non-empty
\* mapping; a run that ended in an abort, or is showing a form, has created
\* no entry; only the import step creates an entry with no collaborator call.
C17_CreateOnlyAfterCollaborator ==
    \A f \in Flows :
        /\ (last[f].step = "user" /\ result[f].type = "create_entry")
              => /\ last[f].returned = <<"authenticate", "fetch_contracts">>
                 /\ GotContracts(f)
                 /\ last[f].failure = "None"
        /\ result[f].type # "create_entry" => created[f] = 0
        /\ created[f] <= 1
        /\ (created[f] = 1 /\ calls[f] = <<>>) => last[f].step = "import"
C17_Witness ==
    \E f, g \in Flows :
        /\ last[f].step = "user" /\ result[f].type = "create_entry"
        /\ created[f] = 1
        /\ last[g].step = "user" /\ result[g].type = "form"
        /\ result[g].errors # NoErrors
        /\ created[g] = 0

\* C19: within one submission to the user step authenticate is called at
\* most once and fetch_contracts at most once, fetch_contracts only after
\* authenticate has returned; the import step and a call without input make
\* no collaborator call.
C19_CollaboratorCallOrder ==
    \A f \in Flows :
        /\ calls[f] \in {<<>>, <<"authenticate">>, <<"authenticate", "fetch_contracts">>}
        /\ Len(calls[f]) = 2
              => Len(last[f].returned) >= 1 /\ last[f].returned[1] = "authenticate"
        /\ (last[f].step # "user" \/ last[f].input = None) => calls[f] = <<>>
C19_Witness ==
    \E f, g \in Flows :
        /\ calls[f] = <<"authenticate", "fetch_contracts">>
        /\ last[f].returned = <<"authenticate", "fetch_contracts">>
        /\ entered[f]
        /\ last[g].step = "import" /\ created[g] = 1 /\ calls[g] = <<>>

\* C18: once the contract step has been entered, the pending ids, the
\* current id and the ids with a recorded decision together are exactly the
\* ids fetch_contracts returned; the current id is not pending, no pending id
\* has a decision, and no id outside the returned ones is recorded.
C18_IdsPartition ==
    \A f \in Flows :
        entered[f]
        => LET pending == Range(handler[f]._contracts.keys)
               current == handler[f]._last_contract_id
               recorded == DOMAIN handler[f]._current_config.contracts
               original == Range(fetched[f].keys)
           IN /\ current # NoneId
              /\ pending \cup {current} \cup recorded = original
              /\ current \notin pending
              /\ pending \cap recorded = {}
              /\ recorded \subseteq original
              /\ Len(handler[f]._contracts.keys) = Cardinality(pending)
C18_Witness ==
    \E f \in Flows :
        /\ entered[f]
        /\ Submitted(f, "contract")
        /\ handler[f]._contracts.keys # <<>>
        /\ DOMAIN handler[f]._current_config.contracts = {handler[f]._last_contract_id}
        /\ Len(fetched[f].keys) = MaxContracts

=============================================================================
